---- MODULE Spec2Model ----
(***************************************************************************)
(* Model of the Google Places Insights tool                                *)
(* (src/src/mastra/tools/google-places-insights-tool.ts).                  *)
(*                                                                         *)
(* A JavaScript object is a function whose DOMAIN is the set of keys the   *)
(* object has; an absent (undefined) property is an absent key.  Object    *)
(* spread {...a, ...b} is b @@ a.  A text (response body, error message)   *)
(* is a sequence of fragments and String.includes looks for a fragment.    *)
(* A nullable local (data, the returned value, the thrown error) is a      *)
(* sequence of length at most one.                                         *)
(***************************************************************************)
EXTENDS Integers, Sequences, FiniteSets, TLC

VARIABLES
    env,             \* process.env: whether GOOGLE_API_KEY is set
    context,         \* the tool input handed to execute
    pc,              \* position of the invocation
    enhancedFilter,  \* local of execute
    currentFilter,   \* local of execute
    attempts,        \* local of execute
    data,            \* local of execute
    result,          \* value execute returned
    error,           \* error execute threw
    sent,            \* request bodies handed to fetch, in order
    replies,         \* outcomes of the fetches observed so far, in order
    biIn,            \* arguments of a direct generateBusinessIntelligence call
    biOut            \* its return value

vars == <<env, context, pc, enhancedFilter, currentFilter, attempts, data,
          result, error, sent, replies, biIn, biOut>>

execVars == <<env, context, pc, enhancedFilter, currentFilter, attempts, data,
              result, error, sent, replies>>

-----------------------------------------------------------------------------
(* JavaScript values *)

Has(o, k) == k \in DOMAIN o

EmptyObj == [k \in {} |-> 0]

Null == <<>>

Some(v) == <<v>>

undefined == "undefined"

\* String.prototype.includes on a text made of fragments
Includes(text, fragment) == \E i \in 1..Len(text) : text[i] = fragment

-----------------------------------------------------------------------------
(* Input vocabulary *)

capPhrase == "maximum number of allowed places"

insights == <<"INSIGHT_COUNT", "INSIGHT_PLACES">>

operatingStatusDefault == <<"OPERATING_STATUS_OPERATIONAL">>

MinRadius == 1

MaxRadius == 50000

BUSINESS_INTELLIGENCE_PRESETS ==
    [ RETAIL_GENERAL |->
        [ includedTypes |-> <<"store", "shopping_mall", "supermarket",
                              "department_store", "convenience_store">>,
          excludedTypes |-> <<"gas_station", "car_dealer">> ],
      FOOD_SERVICE |->
        [ includedPrimaryTypes |-> <<"restaurant">>,
          includedTypes |-> <<"cafe", "fast_food_restaurant", "meal_takeaway", "bar">>,
          excludedTypes |-> <<"lodging", "gas_station">> ],
      PROFESSIONAL_SERVICES |->
        [ includedPrimaryTypes |-> <<"lawyer", "accounting", "dentist", "doctor">>,
          includedTypes |-> <<"consultant", "real_estate_agency", "insurance_agency">> ],
      HEALTH_WELLNESS |->
        [ includedPrimaryTypes |-> <<"gym", "spa", "beauty_salon", "physiotherapist",
                                     "hospital", "pharmacy">>,
          excludedTypes |-> <<"lodging", "gas_station", "car_dealer">> ],
      HOSPITALITY |->
        [ includedPrimaryTypes |-> <<"hotel", "lodging">>,
          includedTypes |-> <<"bar", "night_club", "restaurant">>,
          excludedTypes |-> <<"gas_station", "car_dealer">> ],
      FINANCIAL_SERVICES |->
        [ includedPrimaryTypes |-> <<"bank">>,
          includedTypes |-> <<"atm", "insurance_agency", "accounting">>,
          excludedTypes |-> <<"gas_station", "restaurant", "lodging">> ],
      EDUCATION |->
        [ includedPrimaryTypes |-> <<"school", "university">>,
          includedTypes |-> <<"library", "book_store">>,
          excludedTypes |-> <<"gas_station", "restaurant", "lodging">> ],
      AUTOMOTIVE |->
        [ includedPrimaryTypes |-> <<"car_dealer", "car_rental", "car_repair",
                                     "gas_station">>,
          excludedTypes |-> <<"restaurant", "lodging">> ],
      HOME_SERVICES |->
        [ includedPrimaryTypes |-> <<"plumber", "electrician", "contractor">>,
          includedTypes |-> <<"home_goods_store", "hardware_store">>,
          excludedTypes |-> <<"restaurant", "lodging", "gas_station">> ],
      SOLO_PROFESSIONAL |->
        [ includedTypes |-> <<"consultant", "lawyer", "dentist", "doctor",
                              "therapist", "coach">>,
          excludedTypes |-> <<"restaurant", "lodging", "gas_station", "car_dealer">> ],
      TECH_SERVICES |->
        [ includedPrimaryTypes |-> <<"software_company">>,
          includedTypes |-> <<"computer_store", "electronics_store", "internet_cafe">>,
          excludedTypes |-> <<"restaurant", "lodging", "gas_station">> ] ]

validPrimaryTypes ==
    { "restaurant", "store", "hotel", "bank", "school", "gym", "spa",
      "beauty_salon", "lawyer", "accounting", "dentist", "doctor", "car_dealer",
      "car_rental", "car_repair", "gas_station", "plumber", "electrician",
      "contractor", "software_company" }

TypeFilterKeys ==
    {"includedTypes", "excludedTypes", "includedPrimaryTypes", "excludedPrimaryTypes"}

-----------------------------------------------------------------------------
(* Inputs the model draws from *)

latLng == [latitude |-> 40, longitude |-> -74]

\* circle radii offered to the schema; the first and the last are out of range
Radii == {0, 1, 100, 199, 200, 1000, 50000, 50001}

LocationFilters ==
    { [circle |-> [latLng |-> latLng, radius |-> r]] : r \in Radii }
    \cup { [circle |-> [radius |-> 1000]],
           [region |-> [place |-> "places/region"]],
           [customArea |-> [polygon |-> "polygon"]],
           [circle |-> [place |-> "places/center", radius |-> 1000],
            region |-> [place |-> "places/region"]],
           EmptyObj }

TypeFilters ==
    { [includedTypes |-> <<"cafe">>],
      [includedTypes |-> <<"fast_food", "bar">>,
       includedPrimaryTypes |-> <<"pizza_restaurant", "restaurant">>],
      [includedPrimaryTypes |-> <<"bakery">>, excludedPrimaryTypes |-> <<"bar">>],
      [includedTypes |-> <<>>, excludedTypes |-> <<"bar">>] }

AnalysisTypes == {"MARKET_DENSITY", "COMPETITOR_ANALYSIS", "LOCATION_SUITABILITY", "CUSTOM"}

\* the analysis types the invocations are drawn with
InvokedAnalysisTypes == {"MARKET_DENSITY", "COMPETITOR_ANALYSIS", "CUSTOM"}

\* businessContext as the input schema leaves it: absent, or with an industry
BusinessContexts ==
    { EmptyObj } \cup
    { [businessContext |-> [industry |-> i]] :
        i \in {"FOOD_SERVICE", "HEALTH_WELLNESS", "SOLO_PROFESSIONAL", "CUSTOM"} }

Contexts ==
    { [insights |-> insights,
       filter |-> [locationFilter |-> lf, typeFilter |-> tf,
                   operatingStatus |-> operatingStatusDefault],
       analysisType |-> at] @@ bc :
        lf \in LocationFilters, tf \in TypeFilters, at \in InvokedAnalysisTypes,
        bc \in BusinessContexts }

-----------------------------------------------------------------------------
(* inputSchema *)

locationFilterSchema(lf) ==
    /\ Has(lf, "circle") =>
          /\ lf.circle.radius >= MinRadius
          /\ lf.circle.radius <= MaxRadius
    /\ \/ Has(lf, "circle") /\ (Has(lf.circle, "latLng") \/ Has(lf.circle, "place"))
       \/ Has(lf, "region")
       \/ Has(lf, "customArea")

typeFilterSchema(tf) ==
    \/ Has(tf, "includedTypes") /\ Len(tf.includedTypes) # 0
    \/ Has(tf, "includedPrimaryTypes") /\ Len(tf.includedPrimaryTypes) # 0

inputSchema(ctx) ==
    /\ locationFilterSchema(ctx.filter.locationFilter)
    /\ typeFilterSchema(ctx.filter.typeFilter)

-----------------------------------------------------------------------------
(* Errors: an Error object is its name and its message text *)

ConfigurationError ==
    [name |-> "Error",
     message |-> <<"Google API key not found. Please set the GOOGLE_API_KEY environment variable.">>]

StatusText(status) == IF status = 429 THEN "429" ELSE IF status = 500 THEN "500" ELSE "200"

RequestFailedError(status, errorBody) ==
    [name |-> "Error",
     message |-> <<"Google Places Insights API request failed with status ",
                   StatusText(status), ": ">> \o errorBody]

NoDataError ==
    [name |-> "Error",
     message |-> <<"Failed to get data from Google Places API after all retry attempts">>]

FetchError(text) == [name |-> "TypeError", message |-> text]

ZodError == [name |-> "ZodError", message |-> <<"Tool validation failed">>]

-----------------------------------------------------------------------------
(* Remote behaviour the model draws from *)

Statuses == {429, 500}

ErrorBodies ==
    { <<"Insight computation exceeds the ", capPhrase, ". Narrow the filter.">>,
      <<"Internal error encountered.">> }

FetchErrorTexts == { <<"fetch failed">>, <<"proxy: ", capPhrase>> }

\* largest placeInsights array the service is modelled to return
MaxPlaces == 1

PlaceEntries == { [place |-> "places/A"], EmptyObj }

PlaceArrays == UNION { [1..n -> PlaceEntries] : n \in 0..MaxPlaces }

\* the count field is a numeric string, a sequence of digit characters
CountStrings == { <<"0">>, <<"2">>, <<"5">>, <<"2", "0">> }

JsonBodies ==
    { c @@ p :
        c \in {EmptyObj} \cup { [count |-> n] : n \in CountStrings },
        p \in {EmptyObj} \cup { [placeInsights |-> a] : a \in PlaceArrays } }

-----------------------------------------------------------------------------
(* execute: preset merge (lines 226-238) *)

MergeTypeFilter(existingTypeFilter, preset) == preset @@ existingTypeFilter

ApplyPreset(ctx) ==
    IF /\ Has(ctx, "businessContext")
       /\ Has(ctx.businessContext, "industry")
       /\ ctx.businessContext.industry # "CUSTOM"
       /\ ctx.businessContext.industry \in DOMAIN BUSINESS_INTELLIGENCE_PRESETS
    THEN [ctx.filter EXCEPT !.typeFilter =
            MergeTypeFilter(ctx.filter.typeFilter,
                            BUSINESS_INTELLIGENCE_PRESETS[ctx.businessContext.industry])]
    ELSE ctx.filter

-----------------------------------------------------------------------------
(* execute: retry loop (lines 240-345) *)

maxAttempts == 3

DefaultRadius == 1000

RadiusFloor == 50

RequestBody(ctx, filter) == [insights |-> ctx.insights, filter |-> filter]

\* currentFilter.locationFilter?.circle?.radius, undefined as 0
CircleRadius(filter) ==
    IF /\ Has(filter.locationFilter, "circle")
       /\ Has(filter.locationFilter.circle, "radius")
    THEN filter.locationFilter.circle.radius
    ELSE 0

\* currentFilter.locationFilter?.circle?.radius || 1000
CurrentRadius(filter) ==
    IF CircleRadius(filter) # 0 THEN CircleRadius(filter) ELSE DefaultRadius

\* Math.floor(currentRadius * 0.25)
NewRadius(currentRadius) == (currentRadius * 25) \div 100

\* the alias and vocabulary repair computed when newRadius < 50 (lines 280-297)
FixFastFood(type) == IF type = "fast_food" THEN "fast_food_restaurant" ELSE type

IsValidPrimaryType(type) == type \in validPrimaryTypes

\* includedTypes.map(...)
RECURSIVE FixFastFoodAll(_)
FixFastFoodAll(types) ==
    IF types = <<>> THEN <<>>
    ELSE <<FixFastFood(Head(types))>> \o FixFastFoodAll(Tail(types))

\* includedPrimaryTypes.filter(...)
RECURSIVE KeepValidPrimaryTypes(_)
KeepValidPrimaryTypes(types) ==
    IF types = <<>> THEN <<>>
    ELSE (IF IsValidPrimaryType(Head(types)) THEN <<Head(types)>> ELSE <<>>)
         \o KeepValidPrimaryTypes(Tail(types))

correctedPreset(typeFilter) ==
    LET fixed == IF Has(typeFilter, "includedTypes")
                 THEN [includedTypes |-> FixFastFoodAll(typeFilter.includedTypes)]
                 ELSE EmptyObj
        kept  == IF Has(typeFilter, "includedPrimaryTypes")
                 THEN [includedPrimaryTypes |->
                         KeepValidPrimaryTypes(typeFilter.includedPrimaryTypes)]
                 ELSE EmptyObj
    IN  kept @@ fixed @@ typeFilter

\* { ...currentFilter, locationFilter: { ...locationFilter,
\*     circle: { ...circle, radius: newRadius } } }
WithRadius(filter, newRadius) ==
    LET lf     == filter.locationFilter
        circle == IF Has(lf, "circle") THEN lf.circle ELSE EmptyObj
    IN  [filter EXCEPT !.locationFilter =
            [circle |-> ([radius |-> newRadius] @@ circle)] @@ lf]

\* the 429 branch's new currentFilter.  Below the floor the code builds
\* correctedPreset and never stores it; both branches assign the same filter.
ReducedFilter(filter) ==
    LET newRadius == NewRadius(CurrentRadius(filter))
    IN  IF newRadius < RadiusFloor
        THEN LET discarded == correctedPreset(filter.typeFilter)
             IN  WithRadius(filter, newRadius)
        ELSE WithRadius(filter, newRadius)

IsCapacityExceeded(status, errorBody) ==
    status = 429 /\ Includes(errorBody, capPhrase)

\* the catch clause's test for rethrowing
Rethrows(att, err) == att >= maxAttempts \/ ~Includes(err.message, capPhrase)

-----------------------------------------------------------------------------
(* generateBusinessIntelligence (lines 400-486)                            *)
(*                                                                         *)
(* density = count / (Math.PI * Math.pow(radius / 1000, 2)) is compared    *)
(* with the thresholds exactly, as a ratio of naturals, with Math.PI at    *)
(* its 16 significant digits 3.141592653589793:                            *)
(*     density < t   iff   count * 10^24 < t * 1000 * PI15 * radius^2      *)
(* where PI15 = 3141592653589793.  The products exceed TLC's integers, so  *)
(* they are computed on little-endian sequences of base-10000 digits.      *)
(***************************************************************************)

Base == 10000

\* 3141592653589793, least significant digit first
MathPI == <<9793, 5358, 5926, 3141>>

\* a * k + carry
RECURSIVE BigMul(_, _, _)
BigMul(a, k, carry) ==
    IF a = <<>>
    THEN IF carry = 0 THEN <<>>
         ELSE <<carry % Base>> \o BigMul(<<>>, k, carry \div Base)
    ELSE LET t == Head(a) * k + carry
         IN  <<t % Base>> \o BigMul(Tail(a), k, t \div Base)

Digit(a, i) == IF i <= Len(a) THEN a[i] ELSE 0

RECURSIVE BigLessFrom(_, _, _)
BigLessFrom(a, b, i) ==
    IF i = 0 THEN FALSE
    ELSE IF Digit(a, i) # Digit(b, i) THEN Digit(a, i) < Digit(b, i)
    ELSE BigLessFrom(a, b, i - 1)

BigLess(a, b) == BigLessFrom(a, b, IF Len(a) > Len(b) THEN Len(a) ELSE Len(b))

\* density < threshold
DensityLess(count, radius, threshold) ==
    LET lhs == <<0, 0, 0, 0, 0, 0>> \o BigMul(<<1>>, count, 0)
        rhs == BigMul(BigMul(BigMul(BigMul(MathPI, 1000, 0), threshold, 0),
                             radius, 0), radius, 0)
    IN  BigLess(lhs, rhs)

competitionLevelSwapped(count, radius) ==
    IF DensityLess(count, radius, 1) THEN "LOW"
    ELSE IF DensityLess(count, radius, 5) THEN "HIGH"
    ELSE IF DensityLess(count, radius, 15) THEN "MODERATE"
    ELSE "SATURATED"

competitionLevelOffByBand(count, radius) ==
    IF DensityLess(count, radius, 1) THEN "LOW"
    ELSE IF DensityLess(count, radius, 5) THEN "MODERATE"
    ELSE IF DensityLess(count, radius, 10) THEN "HIGH"
    ELSE "SATURATED"

competitionLevel(count, radius) ==
    IF DensityLess(count, radius, 1) THEN "LOW"
    ELSE IF DensityLess(count, radius, 5) THEN "MODERATE"
    ELSE IF DensityLess(count, radius, 15) THEN "HIGH"
    ELSE "SATURATED"

\* a faulty variant: the list is kept under its key even when empty
listAlways(key, list) == [k \in {key} |-> list]

\* key: list.length > 0 ? list : undefined
listOrUndefined(key, list) ==
    IF Len(list) > 0 THEN [k \in {key} |-> list] ELSE EmptyObj

\* the formatted texts keep their template; the values formatted into
\* marketDensity are kept beside it
marketDensity(count, radius) ==
    [text |-> "${density.toFixed(2)} businesses per km2 (${count} total in ${radius}m radius)",
     count |-> count, radius |-> radius]

generateBusinessIntelligence(count, radius, analysisType, businessContext) ==
    LET level == competitionLevel(count, radius)
        industry == IF Has(businessContext, "industry")
                    THEN businessContext.industry ELSE undefined
        retail == industry \in {"RETAIL_GENERAL", "FOOD_SERVICE"}
        solo   == industry \in {"SOLO_PROFESSIONAL", "PROFESSIONAL_SERVICES"}
        tech   == ~retail /\ ~solo /\ industry = "TECH_SERVICES"
        recommendations ==
            (CASE level = "LOW" ->
                    <<"Market opportunity exists with low competition",
                      "Consider being a market pioneer in this area">>
               [] level = "MODERATE" ->
                    <<"Balanced market with room for differentiation",
                      "Focus on unique value proposition">>
               [] level = "HIGH" ->
                    <<"Highly competitive market - strong differentiation required">>
               [] OTHER ->
                    <<"Market appears saturated - consider alternative locations">>)
            \o (IF retail /\ level = "HIGH"
                THEN <<"Focus on loyalty programs and customer retention">>
                ELSE <<>>)
            \o (IF tech THEN <<"Focus on technology adoption and innovation">> ELSE <<>>)
            \o (CASE analysisType = "MARKET_DENSITY" ->
                    <<"Market density: ${density.toFixed(2)} businesses per km2">>
                  [] analysisType = "COMPETITOR_ANALYSIS" ->
                    <<"${count} direct competitors identified in ${radius}m radius">>
                  [] analysisType = "LOCATION_SUITABILITY" /\ level = "LOW" ->
                    <<"Location shows good potential for new business entry">>
                  [] analysisType = "LOCATION_SUITABILITY" /\ level = "SATURATED" ->
                    <<"Consider alternative locations with less competition">>
                  [] OTHER -> <<>>)
        riskFactors ==
            (CASE level = "HIGH" -> <<"High competition may impact market share">>
               [] level = "SATURATED" ->
                    <<"Market saturation may limit growth potential",
                      "High customer acquisition costs likely">>
               [] OTHER -> <<>>)
            \o (IF analysisType = "COMPETITOR_ANALYSIS" /\ count > 10
                THEN <<"High number of competitors may indicate market saturation">>
                ELSE <<>>)
        opportunities ==
            (CASE level = "LOW" -> <<"First-mover advantage in underserved market">>
               [] level = "SATURATED" ->
                    <<"Consider consolidation or acquisition opportunities">>
               [] OTHER -> <<>>)
            \o (IF solo /\ level = "LOW"
                THEN <<"Potential for premium pricing in underserved market">>
                ELSE <<>>)
        strategicInsights ==
            (CASE level = "MODERATE" ->
                    <<"Market has healthy competition - focus on service quality">>
               [] level = "HIGH" ->
                    <<"Consider niche positioning or superior customer experience">>
               [] OTHER -> <<>>)
            \o (IF retail
                THEN <<"Consider seasonal demand patterns for inventory planning">>
                ELSE IF solo THEN <<"Build personal brand and professional network">>
                ELSE IF tech THEN <<"Consider digital marketing and online presence">>
                ELSE <<>>)
    IN  [marketDensity |-> marketDensity(count, radius),
         competitionLevel |-> level,
         recommendations |-> recommendations]
        @@ listOrUndefined("riskFactors", riskFactors)
        @@ listOrUndefined("opportunities", opportunities)
        @@ listOrUndefined("strategicInsights", strategicInsights)

-----------------------------------------------------------------------------
(* execute: result assembly (lines 347-395) *)

DigitValue(ch) ==
    CASE ch = "0" -> 0 [] ch = "1" -> 1 [] ch = "2" -> 2 [] ch = "3" -> 3
      [] ch = "4" -> 4 [] ch = "5" -> 5 [] ch = "6" -> 6 [] ch = "7" -> 7
      [] ch = "8" -> 8 [] ch = "9" -> 9

\* parseInt of a string of decimal digits
RECURSIVE parseIntFrom(_, _)
parseIntFrom(acc, text) ==
    IF text = <<>> THEN acc
    ELSE parseIntFrom(acc * 10 + DigitValue(Head(text)), Tail(text))

parseInt(text) == parseIntFrom(0, text)

\* parseInt(data.count || '0')
CountOrZero(d) ==
    parseInt(IF Has(d, "count") /\ d.count # <<>> THEN d.count ELSE <<"0">>)

\* (insight) => insight.place
PlaceOf(insight) == IF Has(insight, "place") THEN insight.place ELSE undefined

\* data.placeInsights.map(...)
RECURSIVE PlacesOf(_)
PlacesOf(placeInsights) ==
    IF placeInsights = <<>> THEN <<>>
    ELSE <<PlaceOf(Head(placeInsights))>> \o PlacesOf(Tail(placeInsights))

generateRetailInsights(d) ==
    LET count == CountOrZero(d)
    IN  [targetAudienceDensity |->
            IF count > 0 THEN "High customer density area (${count} similar businesses)"
            ELSE "Low customer density area",
         competitivePositioning |->
            IF count > 10 THEN "Highly competitive - focus on differentiation"
            ELSE "Low competition - opportunity for market capture",
         marketingRecommendations |->
            <<"Develop targeted local marketing campaigns",
              "Consider partnerships with complementary businesses",
              "Build customer loyalty programs",
              "Leverage social media for local engagement">>]

generateSoloProfessionalInsights(d) ==
    LET count == CountOrZero(d)
    IN  [marketGapAnalysis |->
            IF count < 3 THEN "Significant market gap - high opportunity"
            ELSE "Established market with moderate competition",
         clientAcquisitionPotential |->
            IF count < 5 THEN "High potential for new client acquisition"
            ELSE "Focus on client retention and referrals",
         serviceDifferentiation |->
            <<"Develop specialized service offerings",
              "Build personal brand and credibility",
              "Create referral networks",
              "Offer premium consultation services">>]

\* the gate of the business intelligence block (line 367)
AlwaysAnalysed(ctx) == TRUE

WantsAnalysis(ctx) == ctx.analysisType # "CUSTOM"

BusinessContextOf(ctx) ==
    IF Has(ctx, "businessContext") THEN ctx.businessContext ELSE EmptyObj

AssembleResult(ctx, enhanced, d) ==
    LET bc       == BusinessContextOf(ctx)
        analysed == WantsAnalysis(ctx)
        industry == IF Has(bc, "industry") THEN bc.industry ELSE undefined
        metadata ==
            (IF Has(bc, "industry")
             THEN [industry |-> bc.industry, strategicContext |-> bc] ELSE EmptyObj)
            @@ (IF analysed /\ CircleRadius(enhanced) # 0
                THEN [searchRadius |-> CircleRadius(enhanced)] ELSE EmptyObj)
            @@ [analysisType |-> ctx.analysisType,
                filterCriteria |-> enhanced,
                timestamp |-> "new Date().toISOString()"]
    IN  [metadata |-> metadata]
        @@ (IF Has(d, "count") THEN [count |-> d.count] ELSE EmptyObj)
        @@ (IF Has(d, "placeInsights")
            THEN [places |-> PlacesOf(d.placeInsights)] ELSE EmptyObj)
        @@ (IF analysed
            THEN [businessIntelligence |->
                    generateBusinessIntelligence(CountOrZero(d), CurrentRadius(enhanced),
                                                 ctx.analysisType, bc)]
            ELSE EmptyObj)
        @@ (IF industry \in {"RETAIL_GENERAL", "FOOD_SERVICE"}
            THEN [retailMarketerInsights |-> generateRetailInsights(d)]
            ELSE IF industry \in {"SOLO_PROFESSIONAL", "PROFESSIONAL_SERVICES"}
            THEN [soloProfessionalInsights |-> generateSoloProfessionalInsights(d)]
            ELSE EmptyObj)

-----------------------------------------------------------------------------
(* One invocation of the tool.  The steps are the stretches of execute     *)
(* between two awaits: validation by the input schema, the start of        *)
(* execute up to the first fetch, and the handling of each fetch outcome   *)
(* up to the next fetch or to the end of execute.                          *)

Init ==
    /\ env \in { [GOOGLE_API_KEY |-> "key"], EmptyObj }
    /\ context \in Contexts
    /\ pc = "input"
    /\ enhancedFilter = Null
    /\ currentFilter = Null
    /\ attempts = 0
    /\ data = Null
    /\ result = Null
    /\ error = Null
    /\ sent = <<>>
    /\ replies = <<>>
    /\ biIn = Null
    /\ biOut = Null

Validate ==
    /\ pc = "input"
    /\ IF inputSchema(context)
       THEN pc' = "execute" /\ UNCHANGED error
       ELSE pc' = "rejected" /\ error' = Some(ZodError)
    /\ UNCHANGED <<env, context, enhancedFilter, currentFilter, attempts, data,
                   result, sent, replies, biIn, biOut>>

LoopContinuesOffByOne(att) == att <= maxAttempts

\* while (attempts < maxAttempts)
LoopContinues(att) == att < maxAttempts

\* a faulty variant: the request goes out twice
fetchTwice(requests, body) == Append(Append(requests, body), body)

\* fetch(baseURL, { method: 'POST', ..., body: JSON.stringify(requestBody) })
fetch(requests, body) == Append(requests, body)

\* the top of the loop with the locals as given: the next fetch, or the
\* exit of the loop with data still null
LoopHead(att, filter) ==
    /\ attempts' = att
    /\ currentFilter' = filter
    /\ IF LoopContinues(att)
       THEN /\ sent' = fetch(sent, RequestBody(context, filter))
            /\ pc' = "awaiting"
            /\ UNCHANGED <<result, error>>
       ELSE /\ pc' = "threw"
            /\ error' = Some(NoDataError)
            /\ UNCHANGED <<sent, result>>

Throw(err) ==
    /\ pc' = "threw"
    /\ error' = Some(err)
    /\ UNCHANGED <<attempts, currentFilter, sent, result>>

\* catch (error)
Catch(err) ==
    IF Rethrows(attempts, err) THEN Throw(err)
    ELSE LoopHead(attempts + 1, currentFilter)

\* a faulty variant: the key is not looked at
apiKeyUnchecked(e) == TRUE

\* const apiKey = process.env.GOOGLE_API_KEY, as tested by if (!apiKey)
apiKey(e) == Has(e, "GOOGLE_API_KEY")

Execute ==
    /\ pc = "execute"
    /\ IF ~apiKey(env)
       THEN /\ Throw(ConfigurationError)
            /\ UNCHANGED <<enhancedFilter, data>>
       ELSE /\ enhancedFilter' = ApplyPreset(context)
            /\ data' = Null
            /\ LoopHead(0, ApplyPreset(context))
    /\ UNCHANGED <<env, context, replies, biIn, biOut>>

\* the fetch resolved with a response that is not ok
ReceiveError(status, errorBody) ==
    /\ pc = "awaiting"
    /\ replies' = Append(replies, [kind |-> "response", ok |-> FALSE,
                                   status |-> status, text |-> errorBody])
    /\ IF IsCapacityExceeded(status, errorBody)
       THEN LoopHead(attempts + 1, ReducedFilter(currentFilter))
       ELSE Catch(RequestFailedError(status, errorBody))
    /\ UNCHANGED <<env, context, enhancedFilter, data, biIn, biOut>>

\* the fetch rejected
FetchRejects(text) ==
    /\ pc = "awaiting"
    /\ replies' = Append(replies, [kind |-> "rejection", ok |-> FALSE,
                                   status |-> 0, text |-> text])
    /\ Catch(FetchError(text))
    /\ UNCHANGED <<env, context, enhancedFilter, data, biIn, biOut>>

\* the fetch resolved with an ok response whose JSON body is json (Null: null)
ReceiveOk(json) ==
    /\ pc = "awaiting"
    /\ replies' = Append(replies, [kind |-> "response", ok |-> TRUE,
                                   status |-> 200, text |-> <<>>])
    /\ data' = json
    /\ IF json = Null
       THEN /\ pc' = "threw"
            /\ error' = Some(NoDataError)
            /\ UNCHANGED result
       ELSE /\ pc' = "returned"
            /\ result' = Some(AssembleResult(context, enhancedFilter, json[1]))
            /\ UNCHANGED error
    /\ UNCHANGED <<env, context, enhancedFilter, currentFilter, attempts, sent,
                   biIn, biOut>>

Next ==
    \/ Validate
    \/ Execute
    \/ \E status \in Statuses, errorBody \in ErrorBodies : ReceiveError(status, errorBody)
    \/ \E text \in FetchErrorTexts : FetchRejects(text)
    \/ \E json \in {Null} \cup { Some(j) : j \in JsonBodies } : ReceiveOk(json)

Spec == Init /\ [][Next]_vars

\* every fetch settles, and the event loop runs every continuation
FairSpec == Spec /\ WF_vars(Next)

-----------------------------------------------------------------------------
(* Direct calls of generateBusinessIntelligence *)

\* counts 0..MaxCount, and the counts next to the thresholds at 50 km
MaxCount == 50

BICounts == 0..MaxCount \cup {7853, 7854, 39269, 39270, 117809, 117810}

BIRadii == {1, 50, 250, 500, 1000, 2000, 50000}

BIContexts ==
    { EmptyObj } \cup
    { [industry |-> i] : i \in {"RETAIL_GENERAL", "SOLO_PROFESSIONAL", "TECH_SERVICES"} }

InitBI ==
    /\ env = EmptyObj
    /\ context = EmptyObj
    /\ pc = "idle"
    /\ enhancedFilter = Null
    /\ currentFilter = Null
    /\ attempts = 0
    /\ data = Null
    /\ result = Null
    /\ error = Null
    /\ sent = <<>>
    /\ replies = <<>>
    /\ biIn \in { Some([count |-> c, radius |-> r, analysisType |-> a,
                        businessContext |-> b]) :
                    c \in BICounts, r \in BIRadii, a \in AnalysisTypes, b \in BIContexts }
    /\ biOut = Null

Classify ==
    /\ biOut = Null
    /\ biOut' = Some(generateBusinessIntelligence(biIn[1].count, biIn[1].radius,
                                                  biIn[1].analysisType,
                                                  biIn[1].businessContext))
    /\ UNCHANGED <<execVars, biIn>>

NextBI == Classify

SpecBI == InitBI /\ [][NextBI]_vars

-----------------------------------------------------------------------------
(* Properties of the retry loop *)

IsTerminal == pc \in {"returned", "threw", "rejected"}

\* reply i was a response carrying the capacity-exceeded signature
CapacityExceededAt(i) ==
    /\ replies[i].kind = "response"
    /\ ~replies[i].ok
    /\ IsCapacityExceeded(replies[i].status, replies[i].text)

\* reply i was a response that is not ok and lacks the full signature
OtherFailureAt(i) ==
    /\ replies[i].kind = "response"
    /\ ~replies[i].ok
    /\ ~IsCapacityExceeded(replies[i].status, replies[i].text)

\* C1: in one invocation, whatever the remote answers, no more than 3
\* requests are sent to the aggregation endpoint.
C1_AtMostThreeRequests == Len(sent) <= 3

\* three requests were sent and the third was answered too
C1_Witness == Len(sent) = 3 /\ Len(replies) = 3 /\ pc = "threw"

\* C2: a request with circle radius r answered with capacity-exceeded is
\* followed by a request with radius max(50, floor(r * 0.25)).
C2_NextRadiusClamped ==
    \A i \in 1..Len(replies) :
        (/\ i < Len(sent)
         /\ CapacityExceededAt(i)
         /\ CircleRadius(sent[i].filter) # 0)
        => LET r == CircleRadius(sent[i].filter)
           IN  CircleRadius(sent[i + 1].filter) =
                  (IF r \div 4 >= 50 THEN r \div 4 ELSE 50)

\* C3: a response that is not ok and does not carry the full
\* capacity-exceeded signature ends the invocation with an error; no
\* request follows it.
C3_OtherFailureIsFatal ==
    \A i \in 1..Len(replies) :
        OtherFailureAt(i) => (Len(sent) = i /\ pc = "threw")

\* C4: when every attempt is answered with capacity-exceeded the invocation
\* fails with a RetryExhausted error carrying the filter and the radius of
\* the last request sent.
C4_ExhaustionCarriesLastRequest ==
    (/\ IsTerminal
     /\ Len(replies) = maxAttempts
     /\ \A i \in 1..Len(replies) : CapacityExceededAt(i))
    => /\ pc = "threw"
       /\ result = Null
       /\ error # Null
       /\ error[1].name = "RetryExhausted"
       /\ Has(error[1], "filter")
       /\ error[1].filter = sent[Len(sent)].filter
       /\ Has(error[1], "radius")
       /\ error[1].radius = CircleRadius(sent[Len(sent)].filter)

\* a type list, absent read as empty
Listed(typeFilter, key) == IF Has(typeFilter, key) THEN typeFilter[key] ELSE <<>>

HasKnownPreset ==
    /\ Has(context, "businessContext")
    /\ context.businessContext.industry \in DOMAIN BUSINESS_INTELLIGENCE_PRESETS

\* C5: with a known industry preset, each type list of the first request is
\* the user's list when the user gave a non-empty one, and the preset's list
\* only otherwise.
C5_UserListWins ==
    (Len(sent) >= 1 /\ HasKnownPreset)
    => \A key \in TypeFilterKeys :
          LET user   == Listed(context.filter.typeFilter, key)
              preset == Listed(BUSINESS_INTELLIGENCE_PRESETS[context.businessContext.industry], key)
          IN  Listed(sent[1].filter.typeFilter, key) =
                 (IF user # <<>> THEN user ELSE preset)

\* C6: on success after at least one capacity-exceeded retry, the result's
\* searchRadius and filterCriteria are those of the request that succeeded.
C6_MetadataIsEffective ==
    (/\ pc = "returned"
     /\ \E i \in 1..Len(replies) : CapacityExceededAt(i))
    => /\ result[1].metadata.filterCriteria = sent[Len(sent)].filter
       /\ Has(result[1].metadata, "searchRadius")
       /\ result[1].metadata.searchRadius = CircleRadius(sent[Len(sent)].filter)

\* C7: when the successful response omits count, the result has no
\* businessIntelligence block and no count.
C7_MissingCountNotClassified ==
    (pc = "returned" /\ ~Has(data[1], "count"))
    => /\ ~Has(result[1], "businessIntelligence")
       /\ ~Has(result[1], "count")

-----------------------------------------------------------------------------
(* Properties of the classification *)

\* for each radius drawn, the largest count whose density is below 1, 5 and
\* 15 per km2: floor(t * pi * (radius / 1000)^2), worked out by hand
BandLimits(radius) ==
    CASE radius = 1     -> <<0, 0, 0>>
      [] radius = 50    -> <<0, 0, 0>>
      [] radius = 250   -> <<0, 0, 2>>
      [] radius = 500   -> <<0, 3, 11>>
      [] radius = 1000  -> <<3, 15, 47>>
      [] radius = 2000  -> <<12, 62, 188>>
      [] radius = 50000 -> <<7853, 39269, 117809>>

Classified == biOut # Null

\* C8: for count >= 0 and radius in [1, 50000] the tier is LOW iff
\* density < 1, MODERATE iff 1 <= density < 5, HIGH iff 5 <= density < 15,
\* SATURATED iff density >= 15; at 1000 m counts 0 and 2 are LOW, 5 is
\* MODERATE and 20 is HIGH.
C8_TierBands ==
    Classified =>
        LET count  == biIn[1].count
            radius == biIn[1].radius
            tier   == biOut[1].competitionLevel
            limits == BandLimits(radius)
        IN  /\ radius >= 1 /\ radius <= 50000 /\ count >= 0
            /\ (tier = "LOW") <=> DensityLess(count, radius, 1)
            /\ (tier = "MODERATE") <=>
                  (~DensityLess(count, radius, 1) /\ DensityLess(count, radius, 5))
            /\ (tier = "HIGH") <=>
                  (~DensityLess(count, radius, 5) /\ DensityLess(count, radius, 15))
            /\ (tier = "SATURATED") <=> ~DensityLess(count, radius, 15)
            /\ (tier = "LOW") <=> count <= limits[1]
            /\ (tier = "MODERATE") <=> (limits[1] < count /\ count <= limits[2])
            /\ (tier = "HIGH") <=> (limits[2] < count /\ count <= limits[3])
            /\ (tier = "SATURATED") <=> limits[3] < count
            /\ (radius = 1000 /\ count \in {0, 2}) => tier = "LOW"
            /\ (radius = 1000 /\ count = 5) => tier = "MODERATE"
            /\ (radius = 1000 /\ count = 20) => tier = "HIGH"

\* 20 businesses within 1000 m were classified
C8_Witness ==
    /\ Classified
    /\ biIn[1].count = 20
    /\ biIn[1].radius = 1000
    /\ biOut[1].competitionLevel = "HIGH"

Rank(tier) ==
    CASE tier = "LOW" -> 0 [] tier = "MODERATE" -> 1 [] tier = "HIGH" -> 2
      [] tier = "SATURATED" -> 3

\* the tier of every count and radius drawn
TierTable == [c \in BICounts, r \in BIRadii |-> competitionLevel(c, r)]

\* C9: for a fixed radius the tier never decreases when the count grows,
\* under LOW < MODERATE < HIGH < SATURATED.
C9_TierMonotone ==
    Classified =>
        \A c1 \in BICounts :
            c1 <= biIn[1].count =>
                Rank(TierTable[c1, biIn[1].radius]) <= Rank(biOut[1].competitionLevel)

\* a count was classified above a smaller count at the same radius
C9_Witness ==
    /\ Classified
    /\ \E c1 \in BICounts :
          /\ c1 < biIn[1].count
          /\ Rank(TierTable[c1, biIn[1].radius]) < Rank(biOut[1].competitionLevel)
          /\ Rank(biOut[1].competitionLevel) = 2

-----------------------------------------------------------------------------
(* Outcomes of an invocation *)

IsClassified(res) == Has(res, "businessIntelligence")

\* C10 as stated: a returned result always contains a classification.
C10_ReturnedIsClassified ==
    pc = "returned" => IsClassified(result[1])

\* C10, amended: when every fetch settles, the invocation ends, either with a
\* returned result and no error or with one error and no result; the
\* returned result contains a classification (a tier and recommendations)
\* exactly when analysisType is not CUSTOM.
C10_TerminatesClassifiedUnlessCustom ==
    /\ <>IsTerminal
    /\ [](pc = "returned" =>
            /\ result # Null /\ error = Null
            /\ IsClassified(result[1]) <=> context.analysisType # "CUSTOM"
            /\ IsClassified(result[1]) =>
                  /\ Has(result[1].businessIntelligence, "competitionLevel")
                  /\ Has(result[1].businessIntelligence, "recommendations"))
    /\ [](pc \in {"threw", "rejected"} => (error # Null /\ result = Null))
    /\ [][error # Null => error' = error]_vars

\* a CUSTOM analysis returned a result without classification
C10_Witness ==
    /\ pc = "returned"
    /\ context.analysisType = "CUSTOM"
    /\ ~IsClassified(result[1])

-----------------------------------------------------------------------------
(* Configuration and validation *)

\* C11: when the API credential is absent the invocation fails with the
\* configuration error and no request is ever sent.
C11_NoKeyNoRequest ==
    ~Has(env, "GOOGLE_API_KEY") =>
        /\ Len(sent) = 0
        /\ pc \notin {"awaiting", "returned"}
        /\ pc = "threw" => error = Some(ConfigurationError)

\* a validated invocation without the key has failed
C11_Witness ==
    /\ ~Has(env, "GOOGLE_API_KEY")
    /\ pc = "threw"
    /\ error = Some(ConfigurationError)
    /\ sent = <<>>

LocationVariants == {"circle", "region", "customArea"}

\* the variants the input's location filter has
PopulatedVariants == DOMAIN context.filter.locationFilter \cap LocationVariants

\* C12: a location filter with no variant, or with more than one of circle,
\* region and customArea, is rejected by validation before any request.
C12_ExactlyOneVariant ==
    (pc # "input" /\ Cardinality(PopulatedVariants) # 1)
    => /\ pc = "rejected"
       /\ error = Some(ZodError)
       /\ sent = <<>>

-----------------------------------------------------------------------------
(* Properties of the requests sent *)

InputHasCircle == Has(context.filter.locationFilter, "circle")

\* C13: with a circle location filter, every request carries a radius
\* within [1, 50000], and no request carries a larger radius than the
\* request before it.
C13_RadiusWithinBounds ==
    InputHasCircle =>
        \A i \in 1..Len(sent) :
            /\ CircleRadius(sent[i].filter) >= 1
            /\ CircleRadius(sent[i].filter) <= 50000
            /\ i > 1 => CircleRadius(sent[i].filter) <= CircleRadius(sent[i - 1].filter)

\* C16: at most one request is in flight; a request is issued only when
\* every earlier request has been answered.
C16_OneRequestInFlight ==
    /\ Len(sent) - Len(replies) \in {0, 1}
    /\ (pc = "awaiting") <=> (Len(sent) = Len(replies) + 1)

\* the second request is in flight, the first having been answered
C16_Witness ==
    /\ pc = "awaiting"
    /\ Len(sent) = 2
    /\ Len(replies) = 1

\* C17: when a capacity-exceeded response brings floor(radius * 0.25) below
\* 50, the next request has 'fast_food' replaced in includedTypes and no
\* includedPrimaryTypes entry outside the accepted vocabulary.
C17_RepairTakesEffect ==
    \A i \in 1..Len(replies) :
        (/\ i < Len(sent)
         /\ CapacityExceededAt(i)
         /\ NewRadius(CurrentRadius(sent[i].filter)) < 50)
        => LET next == sent[i + 1].filter.typeFilter
           IN  /\ \A j \in 1..Len(Listed(next, "includedTypes")) :
                     next.includedTypes[j] # "fast_food"
               /\ \A j \in 1..Len(Listed(next, "includedPrimaryTypes")) :
                     next.includedPrimaryTypes[j] \in validPrimaryTypes

\* C18: a capacity-exceeded response to the third request does not shrink
\* the radius again: the current radius stays that of the third request.
C18_NoThirdReduction ==
    (/\ InputHasCircle
     /\ Len(sent) = 3
     /\ Len(replies) = 3
     /\ CapacityExceededAt(3))
    => CircleRadius(currentFilter) = CircleRadius(sent[3].filter)

\* C19: with a region or custom area and no circle, every request has the
\* variants of the validated input and no circle.
C19_VariantUnchanged ==
    ~InputHasCircle =>
        \A i \in 1..Len(sent) :
            /\ DOMAIN sent[i].filter.locationFilter = PopulatedVariants
            /\ ~Has(sent[i].filter.locationFilter, "circle")

-----------------------------------------------------------------------------
(* Properties of the returned result *)

\* the identifiers of the entries that have one, in order
RECURSIVE Identifiers(_)
Identifiers(placeInsights) ==
    IF placeInsights = <<>> THEN <<>>
    ELSE (IF Has(Head(placeInsights), "place")
          THEN <<Head(placeInsights).place>> ELSE <<>>)
         \o Identifiers(Tail(placeInsights))

\* C15: when the response has a places array, the returned list holds the
\* identifiers of the entries that have one, in order, and nothing else.
C15_PlacesWithoutIdentifierDropped ==
    (pc = "returned" /\ Has(data[1], "placeInsights"))
    => /\ Has(result[1], "places")
       /\ result[1].places = Identifiers(data[1].placeInsights)

\* C20: after at least one radius reduction, the classification is
\* computed with the radius of the request that produced the count.
C20_ClassifiedWithEffectiveRadius ==
    (/\ pc = "returned"
     /\ InputHasCircle
     /\ IsClassified(result[1])
     /\ \E i \in 1..Len(replies) : CapacityExceededAt(i))
    => LET effectiveRadius == CircleRadius(sent[Len(sent)].filter)
           classification  == result[1].businessIntelligence
       IN  /\ classification.marketDensity.radius = effectiveRadius
           /\ effectiveRadius >= 1 =>
                 classification.competitionLevel =
                    competitionLevel(CountOrZero(data[1]), effectiveRadius)

-----------------------------------------------------------------------------
(* Lists of the classification *)

OptionalLists == {"riskFactors", "opportunities", "strategicInsights"}

\* C14 as stated: each of the four lists is present in every classification.
C14_AllListsPresent ==
    Classified =>
        \A key \in OptionalLists \cup {"recommendations"} : Has(biOut[1], key)

\* whether the classification of the arguments puts an entry in the list
HasEntries(key) ==
    LET tier     == biOut[1].competitionLevel
        bc       == biIn[1].businessContext
        industry == IF Has(bc, "industry") THEN bc.industry ELSE undefined
    IN  CASE key = "riskFactors" ->
                \/ tier \in {"HIGH", "SATURATED"}
                \/ biIn[1].analysisType = "COMPETITOR_ANALYSIS" /\ biIn[1].count > 10
          [] key = "opportunities" -> tier \in {"LOW", "SATURATED"}
          [] key = "strategicInsights" ->
                \/ tier \in {"MODERATE", "HIGH"}
                \/ industry \in {"RETAIL_GENERAL", "FOOD_SERVICE", "SOLO_PROFESSIONAL",
                                 "PROFESSIONAL_SERVICES", "TECH_SERVICES"}

\* C14, amended: recommendations is present and not empty; riskFactors,
\* opportunities and strategicInsights are each present exactly when they
\* have an entry, and absent otherwise; no list is returned empty.
C14_ListsPresentIffNonEmpty ==
    Classified =>
        /\ Has(biOut[1], "recommendations")
        /\ Len(biOut[1].recommendations) > 0
        /\ \A key \in OptionalLists :
              /\ Has(biOut[1], key) <=> HasEntries(key)
              /\ Has(biOut[1], key) => Len(biOut[1][key]) > 0

\* a LOW classification came back without riskFactors
C14_Witness ==
    /\ Classified
    /\ biOut[1].competitionLevel = "LOW"
    /\ ~Has(biOut[1], "riskFactors")
    /\ Has(biOut[1], "opportunities")

====
